---- MODULE Spec2Model ----
(***************************************************************************)
(* tukit: the command line driver of transactional-update.                 *)
(*                                                                         *)
(* Several tukit processes run against one snapshot store and one lock     *)
(* file.  Each process runs TUKit::TUKit: parseOptions, Lock::Lock (open   *)
(* the lock file, lockf F_TLOCK), processCommand (which blocks while a     *)
(* child runs), Lock::~Lock (close, remove).                               *)
(*                                                                         *)
(* tukit.cpp is modelled from its source.  The Transaction class           *)
(* (Transaction.hpp) and the snapshot backend are not part of tukit.cpp;   *)
(* they are modelled from the operations section of the specification.     *)
(***************************************************************************)
EXTENDS Integers, Sequences, FiniteSets, TLC

\* ---- bounds ----
MaxProcs == 2
MaxInvocations == 3
MaxStatus == 2
MaxSignals == 1

\* ---- representation of absent values ----
\* argv[i] == nullptr, and the id of a Transaction that has no snapshot
NoId == 0
\* the base snapshot name "default"
DefaultBasis == 0

Procs == 1..MaxProcs
\* snapshot 1 is the system's default snapshot at the start
Ids == 1..(MaxInvocations + 1)
Inodes == 1..MaxInvocations
Statuses == 0..MaxStatus
Commands == {"", "execute", "open", "call", "callext", "close", "abort", "bogus"}
\* one option token per invocation; "" is an invocation without options
Options == {"", "--help", "-h", "--version", "-V", "--quiet", "-q",
            "--verbose", "-v", "--continue", "-c", "--bogus", "-x"}
\* the signals TUKit::TUKit calls signal() for
TermSignals == {"SIGINT", "SIGHUP", "SIGQUIT", "SIGTERM"}

VARIABLES
    pc,          \* position of each process in TUKit::TUKit
    fd,          \* Lock::lockfile of each process: the inode it has open, 0 if none
    lockPath,    \* the inode the LOCKFILE path names, 0 if the file does not exist
    lockHolder,  \* per inode: the process holding the lockf lock, 0 if none
    nextInode,   \* next inode to be created
    started,     \* number of invocations started so far
    store,       \* the snapshot store
    tx,          \* the Transaction object of each process
    inv,         \* the running (or last) invocation of each process
    result,      \* how the running invocation of each process ended
    handlers,    \* per process: the signals that have a handler installed
    signals,     \* the number of signals delivered so far
    heldAtStart, \* history: the processes inside the lock when a process started
    overlapped   \* history: two processes have been inside the lock at once

vars == <<pc, fd, lockPath, lockHolder, nextInode, started, store, tx, inv,
          result, handlers, signals, heldAtStart, overlapped>>

\* p is between a successful lockf and the close of its descriptor
Holding(p) == pc[p] \in {"run", "child", "reaped", "unlock"}

\* ---- Transaction and snapshot store ----

NewTransaction == [id |-> NoId, state |-> "Uninitialized", retain |-> FALSE]

NewInvocation ==
    [cmd |-> "", arg |-> NoId, ops |-> <<>>, err |-> "", ret |-> 0,
     status |-> -1, phase |-> "none", usage |-> FALSE, printed |-> NoId,
     opt |-> ""]

\* The working context of one processCommand call: the store, the
\* transaction and the invocation record.  err # "" means an exception is
\* propagating: every later call of the handler is skipped.
Ctx(p) == [store |-> store, t |-> tx[p], i |-> inv[p]]

Log(c, op) == [c EXCEPT !.i.ops = Append(@, op)]

Throw(c, e) == [c EXCEPT !.i.err = e]

\* Transaction::init(basis)
init(c, basis, createOk) ==
    IF c.i.err # "" THEN c
    ELSE IF createOk /\ (basis = DefaultBasis \/ basis \in c.store.snapshots)
    THEN LET id == c.store.nextId IN
         [Log(c, "createSnapshot") EXCEPT
            !.store.snapshots = @ \cup {id},
            !.store.inProgress = @ \cup {id},
            !.store.nextId = id + 1,
            !.store.createdBy[id] = c.i.cmd,
            !.t = [id |-> id, state |-> "Open", retain |-> FALSE]]
    ELSE Throw(Log(c, "createSnapshotFailed"), "SnapshotCreationError")

\* Transaction::resume(id)
resume(c, id) ==
    IF c.i.err # "" THEN c
    ELSE IF id \in c.store.inProgress
    THEN [Log(c, "mountPathOf") EXCEPT
            !.t = [id |-> id, state |-> "Open", retain |-> FALSE]]
    ELSE Throw(Log(c, "mountPathOf"), "UnknownTransactionError")

\* Transaction::execute / Transaction::callExt, up to the start of the child
spawn(c, op, spawnOk) ==
    IF c.i.err # "" THEN c
    ELSE IF spawnOk THEN [Log(c, op) EXCEPT !.i.phase = "child"]
    ELSE Throw(Log(c, op \o "Failed"), "ProcessRunnerError")

\* Transaction::finalize()
finalize(c, setDefaultOk) ==
    IF c.i.err # "" THEN c
    ELSE IF setDefaultOk /\ c.t.id \in c.store.snapshots
    THEN [Log(c, "setDefault") EXCEPT
            !.store.defaultSnap = c.t.id,
            !.store.inProgress = @ \ {c.t.id},
            !.store.defCount[c.t.id] = @ + 1,
            !.t.state = "Finalized"]
    ELSE Throw(Log(c, "setDefaultFailed"), "FinalizeError")

\* Transaction::keep()
keep(c) ==
    IF c.i.err # "" THEN c
    ELSE [c EXCEPT !.t.retain = TRUE]

\* Transaction::getSnapshot(), printed as "ID: <id>"
printSnapshot(c) ==
    IF c.i.err # "" THEN c
    ELSE [c EXCEPT !.i.printed = c.t.id]

\* Transaction::~Transaction(): implicit disposal on scope exit
Dispose(c) ==
    IF c.t.state = "Open" /\ ~c.t.retain
    THEN [Log(c, "delete") EXCEPT
            !.store.snapshots = @ \ {c.t.id},
            !.store.inProgress = @ \ {c.t.id},
            !.store.delCount[c.t.id] = @ + 1,
            !.t.state = "Discarded"]
    ELSE c

\* return from processCommand (by return or by exception): the
\* transaction goes out of scope
Return(c, ret) ==
    LET d == Dispose(c) IN
    [d EXCEPT !.i.ret = IF d.i.err = "" THEN ret ELSE 0, !.i.phase = "done"]

\* a handler blocked in execute/callExt stays in scope until the child exits
Leave(c, ret) == IF c.i.phase = "child" THEN c ELSE Return(c, ret)

\* displayHelp(); throw invalid_argument
UsageError(c) == [Throw(c, "invalid_argument") EXCEPT !.i.usage = TRUE]

\* the process dies without unwinding: no destructor runs
Crash(c) == [c EXCEPT !.i.phase = "crashed"]

\* ---- TUKit::processCommand, one operator per branch ----

\* argv[0] == nullptr
CmdMissing(c) == Return(Throw(c, "invalid_argument"), 0)

\* "execute", up to the start of the child
CmdExecute(c, basis, createOk, spawnOk) ==
    Leave(spawn(init(c, basis, createOk), "execute", spawnOk), 0)

\* variant: the zero status returns without finalize
CmdExecuteResume_NoFinalize(c, status, setDefaultOk) ==
    IF status = 0
    THEN Return(c, 0)
    ELSE Return(Throw(c, "runtime_error"), 0)

\* variant: finalize is called before the status is looked at
CmdExecuteResume_FinalizeFirst(c, status, setDefaultOk) ==
    LET f == finalize(c, setDefaultOk) IN
    IF status = 0
    THEN Return(f, 0)
    ELSE Return(Throw(f, "runtime_error"), 0)

\* variant: a non-zero status ends the process with exit(status), which
\* runs no destructor of a local object
CmdExecuteResume_Exit(c, status, setDefaultOk) ==
    IF status = 0
    THEN Return(finalize(c, setDefaultOk), 0)
    ELSE [c EXCEPT !.i.err = "runtime_error", !.i.phase = "done"]

\* "execute", from the child's exit status on
CmdExecuteResume(c, status, setDefaultOk) ==
    IF status = 0
    THEN Return(finalize(c, setDefaultOk), 0)
    ELSE Return(Throw(c, "runtime_error"), 0)

\* variant: keep() is missing
CmdOpen_NoKeep(c, basis, createOk) ==
    Return(printSnapshot(init(c, basis, createOk)), 0)

\* "open"
CmdOpen(c, basis, createOk) ==
    Return(keep(printSnapshot(init(c, basis, createOk))), 0)

\* "call", up to the start of the child
CmdCall(c, arg, spawnOk) ==
    IF arg = NoId
    THEN Return(UsageError(c), 0)
    ELSE Leave(spawn(resume(c, arg), "execute", spawnOk), 0)

\* variant: the child's status is dropped
CmdCallResume_ReturnZero(c, status) == Return(keep(c), 0)

\* variant: keep() only after a zero status
CmdCallResume_KeepOnSuccess(c, status) ==
    IF status = 0 THEN Return(keep(c), status) ELSE Return(c, status)

\* "call", from the child's exit status on
CmdCallResume(c, status) == Return(keep(c), status)

\* "callext", up to the start of the child
CmdCallext(c, arg, spawnOk) ==
    IF arg = NoId
    THEN Return(UsageError(c), 0)
    ELSE Leave(spawn(resume(c, arg), "callExt", spawnOk), 0)

\* variant: the transaction lives in an inner scope that ends before keep()
CmdCallextResume_DisposeFirst(c, status) ==
    [keep(Dispose(c)) EXCEPT !.i.ret = status, !.i.phase = "done"]

\* variant: the status is handed to exit(), which runs no destructor of a
\* local object
CmdCallextResume_Exit(c, status) ==
    [c EXCEPT !.i.ret = status, !.i.phase = "done"]

\* "callext", from the child's exit status on
CmdCallextResume(c, status) == Return(keep(c), status)

\* resume(argv[1]) with argv[1] == nullptr builds a std::string from a null
\* pointer: undefined behaviour.  The outcomes a build produces are an
\* exception (std::logic_error) or the death of the process.
NullId(c, ub) ==
    IF ub = "crash" THEN Crash(c) ELSE Return(Throw(c, "logic_error"), 0)

\* variant: keep() in the place of finalize()
CmdClose_Keep(c, arg, setDefaultOk, ub) ==
    IF arg = NoId
    THEN NullId(c, ub)
    ELSE Return(keep(resume(c, arg)), 0)

\* variant: keep() before finalize()
CmdClose_KeepFirst(c, arg, setDefaultOk, ub) ==
    IF arg = NoId
    THEN NullId(c, ub)
    ELSE Return(finalize(keep(resume(c, arg)), setDefaultOk), 0)

\* variant: init(baseSnapshot) in the place of resume(argv[1])
CmdClose_Init(c, arg, setDefaultOk, ub) ==
    IF arg = NoId
    THEN NullId(c, ub)
    ELSE Return(finalize(init(c, DefaultBasis, TRUE), setDefaultOk), 0)

\* "close"
CmdClose(c, arg, setDefaultOk, ub) ==
    IF arg = NoId
    THEN NullId(c, ub)
    ELSE Return(finalize(resume(c, arg), setDefaultOk), 0)

\* variant: keep() after resume, as in "call"
CmdAbort_Keep(c, arg, ub) ==
    IF arg = NoId
    THEN NullId(c, ub)
    ELSE Return(keep(resume(c, arg)), 0)

\* "abort"
CmdAbort(c, arg, ub) ==
    IF arg = NoId
    THEN NullId(c, ub)
    ELSE Return(resume(c, arg), 0)

\* unknown command
CmdUnknown(c) == Return(UsageError(c), 0)

\* processCommand from its entry to its return or to the point where it
\* blocks on the child
processCommand(c0, cmd, arg, basis, createOk, spawnOk, setDefaultOk, ub) ==
    LET c == [c0 EXCEPT !.t = NewTransaction,
                        !.i = [NewInvocation EXCEPT !.cmd = cmd, !.arg = arg]]
    IN CASE cmd = ""        -> CmdMissing(c)
         [] cmd = "execute" -> CmdExecute(c, basis, createOk, spawnOk)
         [] cmd = "open"    -> CmdOpen(c, basis, createOk)
         [] cmd = "call"    -> CmdCall(c, arg, spawnOk)
         [] cmd = "callext" -> CmdCallext(c, arg, spawnOk)
         [] cmd = "close"   -> CmdClose(c, arg, setDefaultOk, ub)
         [] cmd = "abort"   -> CmdAbort(c, arg, ub)
         [] OTHER           -> CmdUnknown(c)

\* processCommand from the child's exit to its return
childExit(c0, status, setDefaultOk) ==
    LET c == [c0 EXCEPT !.i.status = status,
                        !.store.called = IF c0.i.cmd = "execute" THEN @
                                         ELSE @ \cup {c0.t.id}]
    IN CASE c.i.cmd = "execute" -> CmdExecuteResume(c, status, setDefaultOk)
         [] c.i.cmd = "call"    -> CmdCallResume(c, status)
         [] OTHER               -> CmdCallextResume(c, status)

\* TUKit::TUKit after processCommand: ret != 0 is thrown, an exception
\* propagates
Outcome(i) ==
    IF i.err # "" THEN [kind |-> "exception", code |-> 0, err |-> i.err]
    ELSE IF i.ret # 0 THEN [kind |-> "status", code |-> i.ret, err |-> ""]
    ELSE [kind |-> "ok", code |-> 0, err |-> ""]

NoResult == [kind |-> "none", code |-> 0, err |-> ""]

\* ---- initial state ----

Init ==
    /\ pc = [p \in Procs |-> "idle"]
    /\ fd = [p \in Procs |-> 0]
    /\ lockPath = 0
    /\ lockHolder = [n \in Inodes |-> 0]
    /\ nextInode = 1
    /\ started = 0
    /\ store = [snapshots |-> {1}, inProgress |-> {}, defaultSnap |-> 1,
                nextId |-> 2,
                delCount |-> [n \in Ids |-> 0], defCount |-> [n \in Ids |-> 0],
                createdBy |-> [n \in Ids |-> ""], called |-> {}]
    /\ tx = [p \in Procs |-> NewTransaction]
    /\ inv = [p \in Procs |-> NewInvocation]
    /\ result = [p \in Procs |-> NoResult]
    /\ handlers = [p \in Procs |-> {}]
    /\ signals = 0
    /\ heldAtStart = [p \in Procs |-> {}]
    /\ overlapped = FALSE

\* ---- TUKit::TUKit, step by step ----

\* static const char optstring[] = "+c::hqv"
OptString == {"c", "h", "q", "v"}

\* static const struct option longopts[]
LongOpts == [name \in {"continue", "help", "quiet", "verbose", "version"} |->
                CASE name = "continue" -> "c"
                  [] name = "help"     -> "h"
                  [] name = "quiet"    -> "q"
                  [] name = "verbose"  -> "v"
                  [] OTHER             -> "V"]

\* getopt_long on one token: "--name" is looked up in longopts, "-x" in
\* optstring; what is in neither gives '?'; without a token it gives -1,
\* written "end"
getopt_long(opt) ==
    IF opt = "" THEN "end"
    ELSE IF Len(opt) > 2 /\ SubSeq(opt, 1, 2) = "--"
    THEN LET name == SubSeq(opt, 3, Len(opt)) IN
         IF name \in DOMAIN LongOpts THEN LongOpts[name] ELSE "?"
    ELSE LET ch == SubSeq(opt, 2, 2) IN
         IF ch \in OptString THEN ch ELSE "?"

\* parseOptions: 0 after help or version, -1 after an unknown option,
\* optind (positive) otherwise
parseOptions(opt) ==
    LET ch == getopt_long(opt) IN
    CASE ch = "h" -> 0
      [] ch = "V" -> 0
      [] ch = "?" -> -1
      [] OTHER    -> 1

\* what parseOptions prints
output(opt) ==
    LET ch == getopt_long(opt) IN
    CASE ch = "h" -> "help"
      [] ch = "V" -> "version"
      [] ch = "?" -> "help"
      [] OTHER    -> ""

\* variant: the signal() call for SIGTERM is missing
Installed_NoSigterm == TermSignals \ {"SIGTERM"}

\* the signal() calls of TUKit::TUKit
Installed == TermSignals

\* variant: the handler ends the process
interrupt_Exit(sig) == "exit"

\* interrupt(int signal): logs and returns
interrupt(sig) == "return"

\* the end of a process: its handlers go with it
Exit(p) == handlers' = [handlers EXCEPT ![p] = {}]

\* a tukit process is created
Exec(p) ==
    /\ pc[p] = "idle"
    /\ started < MaxInvocations
    /\ started' = started + 1
    /\ pc' = [pc EXCEPT ![p] = "exec"]
    /\ tx' = [tx EXCEPT ![p] = NewTransaction]
    /\ inv' = [inv EXCEPT ![p] = NewInvocation]
    /\ result' = [result EXCEPT ![p] = NoResult]
    /\ UNCHANGED <<fd, lockPath, lockHolder, nextInode, store, handlers,
                   signals, heldAtStart, overlapped>>

\* signal(...); parseOptions; if (ret <= 0) throw ret.  Only the options
\* of an invocation that ends here are kept: the others set the log level
\* and baseSnapshot, which is drawn where init reads it.
Start(p) ==
    /\ pc[p] = "exec"
    /\ \E opt \in Options :
        LET ret == parseOptions(opt) IN
        IF ret <= 0
        THEN /\ pc' = [pc EXCEPT ![p] = "idle"]
             /\ result' = [result EXCEPT
                   ![p] = [kind |-> "status", code |-> ret, err |-> ""]]
             /\ inv' = [inv EXCEPT ![p].opt = opt]
             /\ Exit(p)
             /\ UNCHANGED heldAtStart
        ELSE /\ pc' = [pc EXCEPT ![p] = "lock"]
             /\ handlers' = [handlers EXCEPT ![p] = Installed]
             /\ heldAtStart' = [heldAtStart EXCEPT
                   ![p] = {q \in Procs : Holding(q)}]
             /\ UNCHANGED <<result, inv>>
    /\ UNCHANGED <<fd, lockPath, lockHolder, nextInode, started, store, tx,
                   signals, overlapped>>

\* the signals whose delivery to p runs interrupt and returns
Handled(p) == {sig \in handlers[p] : interrupt(sig) = "return"}

\* a termination signal is delivered to the process: its handler runs, or,
\* where none is installed, the default action ends the process, and the
\* kernel closes its descriptor
Signal(p) ==
    /\ pc[p] # "idle"
    /\ signals < MaxSignals
    /\ signals' = signals + 1
    /\ \/ /\ Handled(p) # {}
          /\ UNCHANGED <<pc, fd, lockHolder, tx, inv, result, handlers,
                         heldAtStart>>
       \/ /\ TermSignals \ Handled(p) # {}
          /\ pc' = [pc EXCEPT ![p] = "idle"]
          /\ fd' = [fd EXCEPT ![p] = 0]
          /\ lockHolder' = [n \in Inodes |->
                IF lockHolder[n] = p THEN 0 ELSE lockHolder[n]]
          /\ tx' = [tx EXCEPT ![p] = NewTransaction]
          /\ inv' = [inv EXCEPT ![p] = NewInvocation]
          /\ result' = [result EXCEPT
                ![p] = [kind |-> "killed", code |-> 0, err |-> ""]]
          /\ heldAtStart' = [heldAtStart EXCEPT ![p] = {}]
          /\ Exit(p)
    /\ UNCHANGED <<lockPath, nextInode, started, store, overlapped>>

\* Lock::Lock: open(LOCKFILE, O_CREAT|O_WRONLY)
LockOpen(p) ==
    /\ pc[p] = "lock"
    /\ \E openOk \in BOOLEAN :
        IF ~openOk
        THEN /\ pc' = [pc EXCEPT ![p] = "idle"]
             /\ result' = [result EXCEPT
                   ![p] = [kind |-> "exception", code |-> 0, err |-> "LockFileError"]]
             /\ heldAtStart' = [heldAtStart EXCEPT ![p] = {}]
             /\ Exit(p)
             /\ UNCHANGED <<fd, lockPath, nextInode>>
        ELSE /\ pc' = [pc EXCEPT ![p] = "trylock"]
             /\ IF lockPath = 0
                THEN /\ lockPath' = nextInode
                     /\ fd' = [fd EXCEPT ![p] = nextInode]
                     /\ nextInode' = nextInode + 1
                ELSE /\ fd' = [fd EXCEPT ![p] = lockPath]
                     /\ UNCHANGED <<lockPath, nextInode>>
             /\ UNCHANGED <<result, heldAtStart, handlers>>
    /\ UNCHANGED <<lockHolder, started, store, tx, inv, signals, overlapped>>

\* variant: the constructor goes on without the lockf call
LockTry_NoLockf(p) ==
    /\ pc[p] = "trylock"
    /\ pc' = [pc EXCEPT ![p] = "run"]
    /\ overlapped' = (overlapped \/ \E q \in Procs \ {p} : Holding(q))
    /\ heldAtStart' = [heldAtStart EXCEPT ![p] = {}]
    /\ UNCHANGED <<fd, lockPath, lockHolder, nextInode, started, store, tx,
                   inv, result, handlers, signals>>

\* Lock::Lock: lockf(lockfile, F_TLOCK); on failure the constructor throws
\* (the remove after the throw is never reached) and the process ends,
\* which closes its descriptor
LockTry(p) ==
    /\ pc[p] = "trylock"
    /\ IF lockHolder[fd[p]] \notin {0, p}
       THEN /\ pc' = [pc EXCEPT ![p] = "idle"]
            /\ fd' = [fd EXCEPT ![p] = 0]
            /\ result' = [result EXCEPT
                  ![p] = [kind |-> "exception", code |-> 0, err |-> "AlreadyRunningError"]]
            /\ Exit(p)
            /\ UNCHANGED <<lockHolder, overlapped>>
       ELSE /\ pc' = [pc EXCEPT ![p] = "run"]
            /\ lockHolder' = [lockHolder EXCEPT ![fd[p]] = p]
            /\ overlapped' = (overlapped \/ \E q \in Procs \ {p} : Holding(q))
            /\ UNCHANGED <<fd, result, handlers>>
    /\ heldAtStart' = [heldAtStart EXCEPT ![p] = {}]
    /\ UNCHANGED <<lockPath, nextInode, started, store, tx, inv, signals>>

\* what follows a step of processCommand
Continue(p, c) ==
    /\ store' = c.store
    /\ tx' = [tx EXCEPT ![p] = c.t]
    /\ inv' = [inv EXCEPT ![p] = c.i]
    /\ CASE c.i.phase = "child" ->
              /\ pc' = [pc EXCEPT ![p] = "child"]
              /\ UNCHANGED <<fd, lockHolder, result, handlers>>
         [] c.i.phase = "crashed" ->
              \* the kernel closes the descriptor, which drops the lock
              /\ pc' = [pc EXCEPT ![p] = "idle"]
              /\ lockHolder' = [lockHolder EXCEPT ![fd[p]] = 0]
              /\ fd' = [fd EXCEPT ![p] = 0]
              /\ result' = [result EXCEPT
                    ![p] = [kind |-> "crash", code |-> 0, err |-> ""]]
              /\ Exit(p)
         [] OTHER ->
              /\ pc' = [pc EXCEPT ![p] = "unlock"]
              /\ result' = [result EXCEPT ![p] = Outcome(c.i)]
              /\ UNCHANGED <<fd, lockHolder, handlers>>
    /\ UNCHANGED <<lockPath, nextInode, started, signals, heldAtStart, overlapped>>

\* the inputs a command reads; the others are fixed
ArgsOf(cmd) ==
    IF cmd \in {"call", "callext", "close", "abort"}
    THEN (1..store.nextId) \cup {NoId} ELSE {NoId}

BasesOf(cmd) ==
    IF cmd \in {"execute", "open"}
    THEN {DefaultBasis, store.defaultSnap, store.nextId} ELSE {DefaultBasis}

CreateOf(cmd) == IF cmd \in {"execute", "open"} THEN BOOLEAN ELSE {TRUE}

SpawnOf(cmd) == IF cmd \in {"execute", "call", "callext"} THEN BOOLEAN ELSE {TRUE}

UbOf(cmd, arg) ==
    IF cmd \in {"close", "abort"} /\ arg = NoId THEN {"throw", "crash"} ELSE {"throw"}

\* ret = processCommand(&argv[ret])
ProcessCommand(p) ==
    /\ pc[p] = "run"
    /\ \E cmd \in Commands :
       \E arg \in ArgsOf(cmd) :
       \E basis \in BasesOf(cmd), createOk \in CreateOf(cmd),
          spawnOk \in SpawnOf(cmd), ub \in UbOf(cmd, arg),
          setDefaultOk \in IF cmd = "close" THEN BOOLEAN ELSE {TRUE} :
        Continue(p, processCommand(Ctx(p), cmd, arg, basis, createOk,
                                   spawnOk, setDefaultOk, ub))

\* the child exits with a status
ChildExit(p) ==
    /\ pc[p] = "child"
    /\ \E status \in Statuses :
        inv' = [inv EXCEPT ![p].status = status]
    /\ pc' = [pc EXCEPT ![p] = "reaped"]
    /\ UNCHANGED <<fd, lockPath, lockHolder, nextInode, started, store, tx,
                   result, handlers, signals, heldAtStart, overlapped>>

\* execute/callExt returns the status; processCommand runs to its end
ResumeCommand(p) ==
    /\ pc[p] = "reaped"
    /\ \E setDefaultOk \in IF inv[p].cmd = "execute" THEN BOOLEAN ELSE {TRUE} :
        Continue(p, childExit(Ctx(p), inv[p].status, setDefaultOk))

\* Lock::~Lock: close(lockfile), which drops the lock
LockClose(p) ==
    /\ pc[p] = "unlock"
    /\ pc' = [pc EXCEPT ![p] = "remove"]
    /\ lockHolder' = [lockHolder EXCEPT
          ![fd[p]] = IF @ = p THEN 0 ELSE @]
    /\ fd' = [fd EXCEPT ![p] = 0]
    /\ UNCHANGED <<lockPath, nextInode, started, store, tx, inv, result,
                   handlers, signals, heldAtStart, overlapped>>

\* Lock::~Lock: remove(LOCKFILE); the process is gone, and with it its
\* Transaction and its exit status
LockRemove(p) ==
    /\ pc[p] = "remove"
    /\ pc' = [pc EXCEPT ![p] = "idle"]
    /\ lockPath' = 0
    /\ tx' = [tx EXCEPT ![p] = NewTransaction]
    /\ inv' = [inv EXCEPT ![p] = NewInvocation]
    /\ result' = [result EXCEPT ![p] = NoResult]
    /\ Exit(p)
    /\ UNCHANGED <<fd, lockHolder, nextInode, started, store, signals,
                   heldAtStart, overlapped>>

Next ==
    \E p \in Procs :
        \/ Exec(p)
        \/ Start(p)
        \/ Signal(p)
        \/ LockOpen(p)
        \/ LockTry(p)
        \/ ProcessCommand(p)
        \/ ChildExit(p)
        \/ ResumeCommand(p)
        \/ LockClose(p)
        \/ LockRemove(p)

Spec == Init /\ [][Next]_vars

\* the invocations of an operator who starts tukit again only after the
\* previous invocation has ended
SerialNext ==
    \E p \in Procs :
        \/ Exec(p) /\ \A q \in Procs : pc[q] = "idle"
        \/ Start(p)
        \/ Signal(p)
        \/ LockOpen(p)
        \/ LockTry(p)
        \/ ProcessCommand(p)
        \/ ChildExit(p)
        \/ ResumeCommand(p)
        \/ LockClose(p)
        \/ LockRemove(p)

\* A process that is not blocked runs on: once execute/callExt has
\* returned, processCommand and the destructor of Lock are carried out.
\* Nothing makes the child exit.
FairSpec ==
    /\ Init /\ [][SerialNext]_vars
    /\ \A p \in Procs :
          /\ WF_vars(ResumeCommand(p))
          /\ WF_vars(LockClose(p))
          /\ WF_vars(LockRemove(p))

\* ---- properties ----

Has(ops, op) == \E k \in 1..Len(ops) : ops[k] = op

Count(ops, op) == Cardinality({k \in 1..Len(ops) : ops[k] = op})

Resuming == {"call", "callext", "close", "abort"}

\* C1: an execute invocation whose child exits with status 0 and whose
\* finalize succeeds makes the snapshot that its init created the default
\* snapshot, and issues no delete for it, neither explicitly nor by the
\* disposal at scope exit.
C1_ExecuteSuccessPromotes ==
    [][\A p \in Procs :
        (/\ pc[p] = "reaped" /\ pc'[p] = "unlock"
         /\ inv'[p].cmd = "execute" /\ inv'[p].status = 0 /\ inv'[p].err = "")
        => /\ Has(inv'[p].ops, "createSnapshot")
           /\ Has(inv'[p].ops, "setDefault")
           /\ ~Has(inv'[p].ops, "delete")
           /\ tx'[p].state = "Finalized"
           /\ store'.createdBy[tx'[p].id] = "execute"
           /\ store'.defaultSnap = tx'[p].id
           /\ tx'[p].id \in store'.snapshots
           /\ store'.delCount = store.delCount
           /\ result'[p].kind = "ok"]_vars

C1_Witness ==
    \E p \in Procs :
        /\ pc[p] = "unlock" /\ inv[p].cmd = "execute"
        /\ inv[p].status = 0 /\ inv[p].err = ""
        /\ store.defaultSnap = tx[p].id /\ tx[p].id # 1

\* C2: an execute invocation whose child exits with a non-zero status does
\* not call finalize, deletes the snapshot that its init created by the
\* disposal at scope exit, leaves the default snapshot as it was, and ends
\* in error.
C2_ExecuteFailureDiscards ==
    [][\A p \in Procs :
        /\ (pc[p] = "run" /\ pc'[p] # "run" /\ inv'[p].cmd = "execute")
           => store'.defaultSnap = store.defaultSnap
        /\ (/\ pc[p] = "reaped" /\ pc'[p] = "unlock"
            /\ inv'[p].cmd = "execute" /\ inv'[p].status # 0)
           => /\ ~Has(inv'[p].ops, "setDefault")
              /\ ~Has(inv'[p].ops, "setDefaultFailed")
              /\ Count(inv'[p].ops, "delete") = 1
              /\ tx'[p].state = "Discarded"
              /\ store'.createdBy[tx'[p].id] = "execute"
              /\ tx'[p].id \notin store'.snapshots
              /\ store'.delCount[tx'[p].id] = store.delCount[tx'[p].id] + 1
              /\ store'.defaultSnap = store.defaultSnap
              /\ store'.defCount = store.defCount
              /\ result'[p].kind = "exception"
              /\ result'[p].err = "runtime_error"]_vars

C2_Witness ==
    \E p \in Procs :
        /\ pc[p] = "unlock" /\ inv[p].cmd = "execute" /\ inv[p].status = 1
        /\ tx[p].state = "Discarded" /\ tx[p].id \notin store.snapshots
        /\ store.defaultSnap = 1 /\ result[p].kind = "exception"

\* C3: on every way out of processCommand (return, non-zero child status,
\* an error thrown by init, resume, execute, callExt or finalize) the
\* transaction's snapshot is deleted exactly when the transaction is Open
\* and not retained as it goes out of scope; the invocation issues at most
\* one delete, for its own snapshot and for no other; a snapshot it created
\* ends as the default, retained, or deleted.  As long as no two
\* invocations have been inside the lock at once, no snapshot id has
\* received more than one delete.
C3_DisposalOnEveryExit ==
    [][\A p \in Procs :
        /\ (pc[p] = "run" /\ pc'[p] = "child")
           => (~Has(inv'[p].ops, "delete") /\ store'.delCount = store.delCount)
        /\ (pc[p] \in {"run", "reaped"} /\ pc'[p] = "unlock")
           => LET t == tx'[p]
                  i == inv'[p]
                  deleted == t.state = "Discarded"
              IN /\ ~(t.state = "Open" /\ ~t.retain)
                 /\ Has(i.ops, "delete") <=> deleted
                 /\ Count(i.ops, "delete") <= 1
                 /\ deleted => (t.id # NoId /\ t.id \notin store'.snapshots)
                 /\ \A id \in Ids :
                      store'.delCount[id] = store.delCount[id]
                          + (IF deleted /\ id = t.id THEN 1 ELSE 0)
                 /\ Has(i.ops, "createSnapshot")
                      => \/ t.state = "Finalized" /\ store'.defaultSnap = t.id
                         \/ t.state = "Open" /\ t.retain /\ t.id \in store'.snapshots
                         \/ deleted
                 /\ (~overlapped') => \A id \in Ids : store'.delCount[id] <= 1]_vars

C3_Witness ==
    \E p \in Procs :
        /\ pc[p] = "unlock" /\ inv[p].cmd = "execute"
        /\ inv[p].err = "FinalizeError" /\ inv[p].status = 0
        /\ tx[p].state = "Discarded" /\ Has(inv[p].ops, "delete")
        /\ tx[p].id \notin store.snapshots

\* C4: an open invocation that completes leaves the snapshot it created
\* present and not default, having issued neither setDefault nor delete
\* for it, and prints an id that resume accepts.
C4_OpenLeavesSnapshot ==
    [][\A p \in Procs :
        (/\ pc[p] = "run" /\ pc'[p] = "unlock"
         /\ inv'[p].cmd = "open" /\ inv'[p].err = "")
        => LET id == tx'[p].id IN
           /\ id # NoId /\ id \notin store.snapshots
           /\ id \in store'.snapshots
           /\ store'.defaultSnap # id
           /\ store'.defaultSnap = store.defaultSnap
           /\ inv'[p].ops = <<"createSnapshot">>
           /\ store'.delCount[id] = 0 /\ store'.defCount[id] = 0
           /\ tx'[p].state = "Open" /\ tx'[p].retain
           /\ inv'[p].printed = id
           /\ inv'[p].printed \in store'.inProgress
           /\ result'[p].kind = "ok"]_vars

C4_Witness ==
    \E p \in Procs :
        /\ pc[p] = "unlock" /\ inv[p].cmd = "open" /\ inv[p].err = ""
        /\ inv[p].printed \in store.inProgress
        /\ inv[p].printed \in store.snapshots
        /\ store.defaultSnap # inv[p].printed

\* C5: a call or callext invocation on an existing open transaction issues
\* neither delete nor setDefault, whatever the exit status of the child: no
\* step of it changes the snapshots, the open transactions or the default
\* snapshot, and it leaves the transaction Open and retained.  As long as
\* no two invocations have been inside the lock at once, the snapshot is
\* present, not default and resumable when the invocation ends.
C5_CallKeepsTransaction ==
    [][\A p \in Procs :
        /\ (/\ pc[p] = "run" /\ pc'[p] = "child"
            /\ inv'[p].cmd \in {"call", "callext"})
           => (store' = store /\ tx'[p].id = inv'[p].arg)
        /\ (/\ pc[p] = "reaped" /\ pc'[p] = "unlock"
            /\ inv'[p].cmd \in {"call", "callext"})
           => LET id == tx'[p].id IN
              /\ store'.snapshots = store.snapshots
              /\ store'.inProgress = store.inProgress
              /\ store'.defaultSnap = store.defaultSnap
              /\ store'.delCount = store.delCount
              /\ store'.defCount = store.defCount
              /\ ~Has(inv'[p].ops, "delete")
              /\ ~Has(inv'[p].ops, "setDefault")
              /\ ~Has(inv'[p].ops, "setDefaultFailed")
              /\ tx'[p].state = "Open" /\ tx'[p].retain
              /\ (~overlapped') =>
                    /\ id \in store'.snapshots
                    /\ id \in store'.inProgress
                    /\ store'.defaultSnap # id]_vars

C5_Witness ==
    \E p \in Procs :
        /\ pc[p] = "unlock" /\ inv[p].cmd = "call" /\ inv[p].status = 2
        /\ ~overlapped
        /\ tx[p].id \in store.called
        /\ tx[p].id \in store.inProgress /\ store.defaultSnap # tx[p].id

\* C6: a close invocation on a transaction that an earlier open invocation
\* created makes its snapshot the default, whether or not call or callext
\* invocations ran on it in between, and no delete has been or is ever
\* issued for a snapshot that was opened and then closed.
C6_OpenThenClosePromotes ==
    [][\A p \in Procs :
        /\ (/\ pc[p] = "run" /\ pc'[p] = "unlock"
            /\ inv'[p].cmd = "close" /\ inv'[p].err = ""
            /\ inv'[p].arg # NoId)
           => LET id == inv'[p].arg IN
              /\ store.createdBy[id] \in {"open", "execute"}
              /\ tx'[p].id = id /\ tx'[p].state = "Finalized"
              /\ store'.defaultSnap = id
              /\ id \in store'.snapshots
              /\ store'.createdBy[id] = "open" => store'.delCount[id] = 0
        /\ \A id \in Ids :
              (store'.createdBy[id] = "open" /\ store'.defCount[id] >= 1)
              => (store'.delCount[id] = 0 /\ id \in store'.snapshots)]_vars

C6_Witness ==
    \E p \in Procs :
        /\ pc[p] = "unlock" /\ inv[p].cmd = "close" /\ inv[p].err = ""
        /\ store.createdBy[inv[p].arg] = "open"
        /\ inv[p].arg \in store.called
        /\ store.defaultSnap = inv[p].arg
        /\ store.delCount[inv[p].arg] = 0

C8_UnknownTransaction ==
    [][\A p \in Procs :
        (/\ pc[p] = "run" /\ pc'[p] # "run"
         /\ inv'[p].cmd \in Resuming
         /\ inv'[p].arg # NoId /\ inv'[p].arg \notin store.inProgress)
        => /\ pc'[p] = "unlock"
           /\ inv'[p].err = "UnknownTransactionError"
           /\ result'[p].kind = "exception"
           /\ inv'[p].ops = <<"mountPathOf">>
           /\ tx'[p].state = "Uninitialized"
           /\ store' = store]_vars

C8_Witness ==
    \E p \in Procs :
        /\ pc[p] = "unlock" /\ inv[p].cmd = "abort"
        /\ inv[p].err = "UnknownTransactionError"
        /\ store.createdBy[inv[p].arg] = "open"
        /\ store.delCount[inv[p].arg] = 1
        /\ store.defCount[inv[p].arg] = 0

\* C9: at most one process is at any time between its lock acquisition
\* and its release.
C9_MutualExclusion == Cardinality({p \in Procs : Holding(p)}) <= 1

\* C10: an invocation that started while another process was inside the
\* lock, and that reaches lockf while that process is still inside it,
\* fails there with AlreadyRunningError, and has touched neither the
\* snapshot store nor a child.
C10_SecondInstanceFails ==
    [][\A p \in Procs :
        (/\ pc[p] = "trylock" /\ pc'[p] # "trylock"
         /\ \E q \in heldAtStart[p] \ {p} : Holding(q))
        => /\ pc'[p] = "idle"
           /\ result'[p].err = "AlreadyRunningError"
           /\ inv'[p].ops = <<>>
           /\ store' = store]_vars

\* C11: no invocation issues both a setDefault and a delete, and each
\* leaves the transaction it attached to a snapshot Finalized (the
\* snapshot is the default and present), Discarded (the snapshot is gone
\* and was not promoted by it) or Open and retained.  Over invocations
\* that run one after the other no snapshot id receives both a delete and
\* a setDefault, and a deleted id is neither present nor the default.
C11_OneDisposition ==
    [][\A p \in Procs :
        (pc[p] \in {"run", "reaped"} /\ pc'[p] = "unlock")
        => LET t == tx'[p]
               i == inv'[p]
           IN /\ ~(Has(i.ops, "setDefault") /\ Has(i.ops, "delete"))
              /\ t.id # NoId =>
                    \/ t.state = "Finalized"
                    \/ t.state = "Discarded"
                    \/ t.state = "Open" /\ t.retain
              /\ t.id = NoId => t.state = "Uninitialized"
              /\ t.state = "Finalized" =>
                    /\ store'.defaultSnap = t.id /\ t.id \in store'.snapshots
                    /\ store'.delCount = store.delCount
              /\ t.state = "Discarded" =>
                    /\ t.id \notin store'.snapshots
                    /\ store'.defCount = store.defCount
                    /\ store'.defaultSnap = store.defaultSnap
              /\ (~overlapped') =>
                    \A id \in Ids :
                       /\ ~(store'.delCount[id] >= 1 /\ store'.defCount[id] >= 1)
                       /\ store'.delCount[id] >= 1 =>
                            (id \notin store'.snapshots /\ store'.defaultSnap # id)]_vars

C11_Witness ==
    \E p \in Procs :
        /\ pc[p] = "unlock" /\ inv[p].cmd = "abort" /\ ~overlapped
        /\ inv[p].err = "UnknownTransactionError"
        /\ store.defCount[inv[p].arg] = 1 /\ store.delCount[inv[p].arg] = 0
        /\ store.defaultSnap = inv[p].arg

C13_UsageErrors ==
    [][\A p \in Procs :
        (/\ pc[p] = "run" /\ pc'[p] # "run"
         /\ \/ inv'[p].cmd \in {"", "bogus"}
            \/ inv'[p].cmd \in Resuming /\ inv'[p].arg = NoId)
        => /\ pc'[p] = "unlock"
           /\ inv'[p].err = "invalid_argument"
           /\ result'[p].kind = "exception"
           /\ inv'[p].ops = <<>>
           /\ store' = store]_vars

Running == {"lock", "trylock", "run", "child", "reaped", "unlock", "remove"}

Disposed(t) == ~(t.state = "Open" /\ ~t.retain)

\* C15: while its child runs the parent stays where it is, whatever
\* signals arrive; after the child's exit it only goes on to the end of
\* processCommand, where the transaction is disposed of, and it keeps the
\* lock until then; once the child has exited, the parent eventually gets
\* there and then releases the lock.
C15_ParentOutlivesChild ==
    /\ [][\A p \in Procs :
            /\ pc[p] = "child" => pc'[p] \in {"child", "reaped"}
            /\ pc[p] = "reaped" => pc'[p] \in {"reaped", "unlock"}
            /\ pc[p] \in {"child", "reaped"}
               => (fd'[p] = fd[p] /\ lockHolder'[fd[p]] = p)
            /\ (pc[p] = "reaped" /\ pc'[p] = "unlock") => Disposed(tx'[p])
            /\ pc[p] = "unlock"
               => (pc'[p] \in {"unlock", "remove"} /\ Disposed(tx'[p]))]_vars
    /\ \A p \in Procs :
          (pc[p] = "reaped")
             ~> (pc[p] = "remove" /\ fd[p] = 0 /\ Disposed(tx[p]))

C15_Witness ==
    \E p \in Procs :
        /\ started = 1 /\ signals >= 1
        /\ pc[p] = "remove" /\ fd[p] = 0
        /\ inv[p].cmd = "execute" /\ inv[p].status = 1
        /\ tx[p].state = "Discarded" /\ tx[p].id \notin store.snapshots

Ends(p) == pc[p] \in {"run", "child", "reaped", "unlock", "remove"} /\ pc'[p] = "idle"

C17_ChildStatusReported ==
    [][\A p \in Procs :
        /\ (pc'[p] \in {"child", "reaped"}) => result'[p] = NoResult
        /\ (/\ pc[p] = "reaped" /\ pc'[p] = "unlock"
            /\ inv[p].cmd \in {"call", "callext"})
           => LET s == inv[p].status IN
              /\ s \in Statuses
              /\ inv'[p].ret = s
              /\ result'[p] = IF s = 0
                              THEN [kind |-> "ok", code |-> 0, err |-> ""]
                              ELSE [kind |-> "status", code |-> s, err |-> ""]
              /\ ~tx[p].retain /\ tx'[p].retain
              /\ inv'[p].ops = inv[p].ops]_vars

C17_Witness ==
    \E p \in Procs :
        /\ pc[p] = "unlock" /\ inv[p].cmd = "callext"
        /\ inv[p].status = MaxStatus
        /\ result[p] = [kind |-> "status", code |-> MaxStatus, err |-> ""]
        /\ tx[p].retain /\ tx[p].state = "Open"

EndsAtOptions(p) == pc[p] = "exec" /\ pc'[p] = "idle" /\ inv'[p].opt # ""

\* C18: an invocation with --help, -h, --version or -V ends with status 0,
\* one with an unknown option with a non-zero status, and in both cases
\* without a lock file opened, a lock taken or the snapshot store touched.
C18_OptionsExit ==
    [][\A p \in Procs :
        EndsAtOptions(p)
           => /\ inv'[p].opt \in {"--help", "-h", "--version", "-V"}
                 => result'[p].code = 0
              /\ inv'[p].opt \in {"--bogus", "-x"} => result'[p].code # 0
              /\ fd'[p] = 0 /\ fd' = fd /\ lockHolder' = lockHolder
              /\ lockPath' = lockPath /\ store' = store
              /\ inv'[p].ops = <<>>]_vars

\* C19: in the sequence of operations of one invocation a delete, if there
\* is one, is the last operation: none is issued while the command is
\* still running or its child has not been waited for; when one has been
\* issued after a child was spawned the child's status is known, no
\* setDefault has succeeded and keep has not been applied.
C19_DisposalIsLast ==
    \A p \in Procs :
        LET ops == inv[p].ops IN
        /\ \A k \in 1..Len(ops) : ops[k] = "delete" => k = Len(ops)
        /\ pc[p] \in {"run", "child", "reaped"} => ~Has(ops, "delete")
        /\ Has(ops, "delete")
           => /\ pc[p] \in {"unlock", "remove"}
              /\ inv[p].phase = "done"
              /\ tx[p].state = "Discarded" /\ ~tx[p].retain
              /\ ~Has(ops, "setDefault")
              /\ (Has(ops, "execute") \/ Has(ops, "callExt"))
                 => inv[p].status \in Statuses

C19_Witness ==
    \E p \in Procs :
        LET ops == inv[p].ops IN
        /\ pc[p] = "unlock" /\ inv[p].cmd = "execute"
        /\ inv[p].status = 0
        /\ Len(ops) >= 3
        /\ ops[Len(ops) - 2] = "execute"
        /\ ops[Len(ops) - 1] = "setDefaultFailed"
        /\ ops[Len(ops)] = "delete"

Locked(p) == fd[p] # 0 /\ lockHolder[fd[p]] = p

\* C20: an invocation issues a store operation or changes the store only
\* in a step that it begins and ends holding the lock, and its child runs
\* only while it holds the lock; when it gives the lock up its transaction
\* has been disposed of; processCommand is entered once per lock hold, and
\* the command it dispatches is never replaced by another one.
C20_EngineInsideLock ==
    [][/\ \A p \in Procs :
            /\ inv'[p].ops # inv[p].ops /\ inv'[p].ops # <<>>
               => (Locked(p) /\ fd'[p] = fd[p] /\ lockHolder'[fd[p]] = p)
            /\ pc'[p] \in {"child", "reaped"}
               => (fd'[p] # 0 /\ lockHolder'[fd'[p]] = p)
            /\ (Locked(p) /\ lockHolder'[fd[p]] # p)
               => (Disposed(tx[p]) /\ tx'[p] = tx[p] /\ inv'[p].ops = inv[p].ops)
            /\ (pc'[p] = "run" /\ pc[p] # "run")
               => (pc[p] = "trylock" /\ inv[p].cmd = "" /\ inv[p].ops = <<>>)
            /\ inv'[p].cmd # inv[p].cmd /\ inv'[p].cmd # ""
               => (pc[p] = "run" /\ pc'[p] # "run" /\ inv[p].cmd = "")
       /\ store' # store
          => \E p \in Procs :
                /\ Locked(p) /\ pc[p] \in {"run", "reaped"}
                /\ inv'[p] # inv[p]]_vars

C20_Witness ==
    \E p \in Procs :
        /\ pc[p] = "remove" /\ fd[p] = 0
        /\ \A n \in Inodes : lockHolder[n] # p
        /\ inv[p].cmd = "execute" /\ inv[p].status = 0
        /\ Has(inv[p].ops, "createSnapshot") /\ Has(inv[p].ops, "setDefault")
        /\ tx[p].state = "Finalized" /\ store.defaultSnap = tx[p].id

====
